---- MODULE Spec2Model ----
(***************************************************************************)
(* Model of the pagination / filtering / refresh controller of the React   *)
(* component App (frontend/src/App.js).                                     *)
(*                                                                         *)
(* The state is the component's useState cells, the requests in flight,    *)
(* the frame of the async handleRefresh, and the closure held by the       *)
(* polling interval.  One action per event handler / promise continuation. *)
(* An action covers the handler, the re-renders it causes, and the effects *)
(* those renders run: an effect runs when one of its dependencies changed, *)
(* and what it reads is the closure of the render that ran it.             *)
(***************************************************************************)
EXTENDS Integers, Sequences, FiniteSets, Bags, TLC

VARIABLES
    phase,           \* "init" (constructed), "mounted", "unmounted"
    articles,        \* displayed list: sequence of response pages
    loading, refreshing,
    searchTerm, selectedSource, selectedHours,
    sources, stats,
    page, totalArticles, hasMore,
    inflight,        \* bag of GET /articles requests awaiting their response
    statsReq,        \* bag of GET /stats requests (by the trigger that issued them)
    sourcesReq,      \* number of GET /sources requests in flight
    hr,              \* frame of the running handleRefresh: pc and captured closure
    interval,        \* closure captured by the setInterval callback, or None
    events,          \* number of user / timer events so far (bounded)
    last,            \* history: the last step taken (responses to GET /sources and to
                     \* GET /stats outside handleRefresh are not recorded)
    chg              \* history: the last filter change, while nothing else happened

vars == <<phase, articles, loading, refreshing, searchTerm, selectedSource,
          selectedHours, sources, stats, page, totalArticles, hasMore,
          inflight, statsReq, sourcesReq, hr, interval, events, last, chg>>

uiState == <<articles, loading, refreshing, searchTerm, selectedSource,
             selectedHours, sources, stats, page, totalArticles, hasMore>>

----------------------------------------------------------------------------
(* Bounds and input domains *)

\* user and timer events (clicks, edits, ticks, unmount) in one run; responses
\* are not counted
MaxEvents == 2

\* per_page, and the length that means "more pages"
PerPage == 20

None == [none |-> TRUE]
NaN == "NaN"

\* a JavaScript value that may be undefined: <<>> is undefined, <<v>> is v
Undefined == <<>>
Some(v) == <<v>>

\* Strings that parseInt reads are sequences of characters.
ALL == <<"a", "l", "l">>
H1 == <<"1">>
H6 == <<"6">>
H24 == <<"2", "4">>
H72 == <<"7", "2">>
H168 == <<"1", "6", "8">>

\* every option of the Time Filter, and the ones the model's user picks from
AllHoursOptions == {H1, H6, H24, H72, H168, ALL}
HoursOptions == {H24, ALL}
SearchTexts == {"", "rust"}
SourceKeys == {"hn"}
\* response.data of GET /articles: <<number of articles, total>>
Responses == {<<0, 0>>, <<PerPage - 1, PerPage - 1>>, <<PerPage, 57>>}

----------------------------------------------------------------------------
(* Pure helpers *)

DigitChars == {"0", "1", "2", "3", "4", "5", "6", "7", "8", "9"}

DigitVal(ch) ==
    CASE ch = "0" -> 0 [] ch = "1" -> 1 [] ch = "2" -> 2 [] ch = "3" -> 3
      [] ch = "4" -> 4 [] ch = "5" -> 5 [] ch = "6" -> 6 [] ch = "7" -> 7
      [] ch = "8" -> 8 [] ch = "9" -> 9

RECURSIVE ParseDigits(_, _)
ParseDigits(s, acc) ==
    IF s = <<>> \/ Head(s) \notin DigitChars
    THEN acc
    ELSE ParseDigits(Tail(s), acc * 10 + DigitVal(Head(s)))

\* parseInt: the value of the longest prefix of digits, NaN when there is none
parseInt(s) ==
    IF s = <<>> \/ Head(s) \notin DigitChars THEN NaN ELSE ParseDigits(s, 0)

\* the variables a fetchArticles instance closes over (its useCallback deps)
Closure(pg, st, ss, sh) ==
    [page |-> pg, searchTerm |-> st, selectedSource |-> ss, selectedHours |-> sh]

CurrentClosure == Closure(page, searchTerm, selectedSource, selectedHours)

\* the params object before its undefined entries are deleted
RawParams(isNewSearch, c) ==
    [page     |-> Some(IF isNewSearch THEN 1 ELSE c.page),
     per_page |-> Some(PerPage),
     hours    |-> IF c.selectedHours = ALL THEN Undefined
                  ELSE Some(parseInt(c.selectedHours)),
     source   |-> IF c.selectedSource = "all" THEN Undefined
                  ELSE Some(c.selectedSource),
     search   |-> IF c.searchTerm = "" THEN Undefined ELSE Some(c.searchTerm)]

\* Object.keys(params).forEach(key => params[key] === undefined && delete params[key])
DeleteUndefined(p) ==
    [k \in {x \in DOMAIN p : p[x] # Undefined} |-> p[k][1]]

\* variant: `search: searchTerm`, an empty search text is sent
BuildParams_KeepsEmptySearch(isNewSearch, c) ==
    DeleteUndefined([RawParams(isNewSearch, c) EXCEPT !.search = Some(c.searchTerm)])

BuildParams(isNewSearch, c) == DeleteUndefined(RawParams(isNewSearch, c))

\* a GET /articles call of fetchArticles(isNewSearch) awaiting its response
Request(isNewSearch, c, by) ==
    [isNewSearch |-> isNewSearch, params |-> BuildParams(isNewSearch, c),
     c |-> c, by |-> by]

\* response.data.articles of a request: n articles, kept as one page
PageOf(r, n) == [q |-> r.params, n |-> n]

RECURSIVE ListLength(_)
ListLength(list) ==
    IF list = <<>> THEN 0 ELSE Head(list).n + ListLength(Tail(list))

Step(op, isNew) == [op |-> op, isNew |-> isNew]

NoChange == [on |-> FALSE]

----------------------------------------------------------------------------
\* variant: the loading cell created false
Init_LoadingFalse ==
    /\ phase = "init"
    /\ articles = <<>>
    /\ loading = FALSE
    /\ refreshing = FALSE
    /\ searchTerm = ""
    /\ selectedSource = "all"
    /\ selectedHours = H24
    /\ sources = {}
    /\ stats = None
    /\ page = 1
    /\ totalArticles = 0
    /\ hasMore = TRUE
    /\ inflight = EmptyBag
    /\ statsReq = EmptyBag
    /\ sourcesReq = 0
    /\ hr = [pc |-> "idle"]
    /\ interval = None
    /\ events = 0
    /\ last = Step("Init", FALSE)
    /\ chg = NoChange

Init ==
    /\ phase = "init"
    /\ articles = <<>>
    /\ loading = TRUE
    /\ refreshing = FALSE
    /\ searchTerm = ""
    /\ selectedSource = "all"
    /\ selectedHours = H24
    /\ sources = {}
    /\ stats = None
    /\ page = 1
    /\ totalArticles = 0
    /\ hasMore = TRUE
    /\ inflight = EmptyBag
    /\ statsReq = EmptyBag
    /\ sourcesReq = 0
    /\ hr = [pc |-> "idle"]
    /\ interval = None
    /\ events = 0
    /\ last = Step("Init", FALSE)
    /\ chg = NoChange

----------------------------------------------------------------------------
(* Rendering.  A handler or continuation leaves the state cells at          *)
(* pg1, ld1, st1, ss1, sh1 and has issued the requests reqs.  The render    *)
(* that follows runs the effects whose dependencies changed; the state      *)
(* they set is rendered once more.                                          *)

One(r) == SetToBag({r})

\* useEffect at [selectedSource, selectedHours]: fires and passes its !loading test
FilterEffectFetches(ld1, ss1, sh1) ==
    /\ (ss1 # selectedSource \/ sh1 # selectedHours)
    /\ ~ld1

\* useEffect at [page, fetchArticles]: fires and passes its page > 1 test
PageEffectFetches(pg1, st1, ss1, sh1) ==
    /\ Closure(pg1, st1, ss1, sh1) # CurrentClosure
    /\ pg1 > 1

\* variant: the interval effect without a dependency list, run by every render
IntervalAfter_EveryRender(pg1, pg2, st1, ss1, sh1) == Closure(pg2, st1, ss1, sh1)

\* variant: the interval effect with an empty dependency list
IntervalAfter_NoDeps(pg1, pg2, st1, ss1, sh1) == interval

\* useEffect at [page]: the closure the interval callback holds afterwards
IntervalAfter(pg1, pg2, st1, ss1, sh1) ==
    IF pg2 # pg1 THEN Closure(pg2, st1, ss1, sh1)
    ELSE IF pg1 # page THEN Closure(pg1, st1, ss1, sh1)
    ELSE interval

Commit(pg1, ld1, st1, ss1, sh1, reqs) ==
    LET c1 == Closure(pg1, st1, ss1, sh1)
        e2 == FilterEffectFetches(ld1, ss1, sh1)
        e3 == PageEffectFetches(pg1, st1, ss1, sh1)
        pg2 == IF e2 THEN 1 ELSE pg1
    IN  /\ searchTerm' = st1
        /\ selectedSource' = ss1
        /\ selectedHours' = sh1
        /\ page' = pg2
        /\ loading' = (IF e2 THEN TRUE ELSE ld1)
        /\ inflight' = inflight (+) reqs
                         (+) (IF e2 THEN One(Request(TRUE, c1, "filter")) ELSE EmptyBag)
                         (+) (IF e3 THEN One(Request(FALSE, c1, "page")) ELSE EmptyBag)
        /\ interval' = IntervalAfter(pg1, pg2, st1, ss1, sh1)

\* fetchArticles(true) called from closure c by trigger `by`, then rendered
FetchNew(c, by) ==
    Commit(1, TRUE, searchTerm, selectedSource, selectedHours,
           One(Request(TRUE, c, by)))

Mounted == phase = "mounted"
CanAct == Mounted /\ events < MaxEvents

----------------------------------------------------------------------------
(* Mount and unmount *)

Mount ==
    /\ phase = "init"
    /\ phase' = "mounted"
    /\ sourcesReq' = sourcesReq + 1
    /\ statsReq' = statsReq (+) One("mount")
    /\ loading' = TRUE
    /\ page' = 1
    /\ inflight' = inflight (+) One(Request(TRUE, CurrentClosure, "mount"))
                     (+) (IF ~loading THEN One(Request(TRUE, CurrentClosure, "filter"))
                          ELSE EmptyBag)
                     (+) (IF page > 1 THEN One(Request(FALSE, CurrentClosure, "page"))
                          ELSE EmptyBag)
    /\ interval' = CurrentClosure
    /\ last' = Step("Mount", TRUE)
    /\ UNCHANGED <<articles, refreshing, searchTerm, selectedSource, selectedHours,
                   sources, stats, totalArticles, hasMore, hr, events, chg>>

Unmount ==
    /\ CanAct
    /\ phase' = "unmounted"
    /\ interval' = None
    /\ events' = events + 1
    /\ last' = Step("Unmount", FALSE)
    /\ chg' = NoChange
    /\ UNCHANGED <<uiState, inflight, statsReq, sourcesReq, hr>>

----------------------------------------------------------------------------
(* User events *)

SetSelectedSource(s) ==
    /\ CanAct
    /\ s \in {"all"} \cup sources
    /\ s # selectedSource
    /\ Commit(page, loading, searchTerm, s, selectedHours, EmptyBag)
    /\ events' = events + 1
    /\ last' = Step("SetSelectedSource", FALSE)
    /\ chg' = [on |-> TRUE, c |-> Closure(1, searchTerm, s, selectedHours)]
    /\ UNCHANGED <<phase, articles, refreshing, sources, stats, totalArticles,
                   hasMore, statsReq, sourcesReq, hr>>

SetSelectedHours(h) ==
    /\ CanAct
    /\ h \in HoursOptions
    /\ h # selectedHours
    /\ Commit(page, loading, searchTerm, selectedSource, h, EmptyBag)
    /\ events' = events + 1
    /\ last' = Step("SetSelectedHours", FALSE)
    /\ chg' = [on |-> TRUE, c |-> Closure(1, searchTerm, selectedSource, h)]
    /\ UNCHANGED <<phase, articles, refreshing, sources, stats, totalArticles,
                   hasMore, statsReq, sourcesReq, hr>>

\* Input onChange
SetSearchTerm(t) ==
    /\ CanAct
    /\ t \in SearchTexts
    /\ t # searchTerm
    /\ Commit(page, loading, t, selectedSource, selectedHours, EmptyBag)
    /\ events' = events + 1
    /\ last' = Step("SetSearchTerm", FALSE)
    /\ chg' = NoChange
    /\ UNCHANGED <<phase, articles, refreshing, sources, stats, totalArticles,
                   hasMore, statsReq, sourcesReq, hr>>

\* form onSubmit
HandleSearch ==
    /\ CanAct
    /\ FetchNew(CurrentClosure, "search")
    /\ events' = events + 1
    /\ last' = Step("HandleSearch", TRUE)
    /\ chg' = [on |-> TRUE, c |-> Closure(1, searchTerm, selectedSource, selectedHours)]
    /\ UNCHANGED <<phase, articles, refreshing, sources, stats, totalArticles,
                   hasMore, statsReq, sourcesReq, hr>>

\* the Load More button is in the document
LoadMoreRendered ==
    /\ ~(loading /\ page = 1)
    /\ hasMore /\ ~loading /\ ListLength(articles) > 0

LoadMore ==
    /\ CanAct
    /\ LoadMoreRendered
    /\ IF hasMore /\ ~loading
       THEN Commit(page + 1, loading, searchTerm, selectedSource, selectedHours,
                   EmptyBag)
       ELSE UNCHANGED <<searchTerm, selectedSource, selectedHours, page, loading,
                        inflight, interval>>
    /\ events' = events + 1
    /\ last' = Step("LoadMore", FALSE)
    /\ chg' = NoChange
    /\ UNCHANGED <<phase, articles, refreshing, sources, stats, totalArticles,
                   hasMore, statsReq, sourcesReq, hr>>

\* click on the Refresh button (disabled while refreshing), up to the first await
HandleRefresh ==
    /\ CanAct
    /\ ~refreshing
    /\ refreshing' = TRUE
    /\ hr' = [pc |-> "post", c |-> CurrentClosure]
    /\ events' = events + 1
    /\ last' = Step("HandleRefresh", FALSE)
    /\ chg' = NoChange
    /\ UNCHANGED <<phase, articles, loading, searchTerm, selectedSource,
                   selectedHours, sources, stats, page, totalArticles, hasMore,
                   inflight, statsReq, sourcesReq, interval>>

\* the setInterval callback, with the closure it captured
Tick ==
    /\ CanAct
    /\ interval # None
    /\ statsReq' = statsReq (+) One("tick")
    /\ IF interval.page = 1
       THEN FetchNew(interval, "tick")
       ELSE UNCHANGED <<searchTerm, selectedSource, selectedHours, page, loading,
                        inflight, interval>>
    /\ events' = events + 1
    /\ last' = Step("Tick", interval.page = 1)
    /\ chg' = NoChange
    /\ UNCHANGED <<phase, articles, refreshing, sources, stats, totalArticles,
                   hasMore, sourcesReq, hr>>

----------------------------------------------------------------------------
(* Responses.  A request either rejects (network error, non-2xx status) or  *)
(* resolves with a payload of the shape the code reads.  After unmount the  *)
(* set-state calls have no effect, but the running async functions          *)
(* continue and still issue their requests.                                 *)

StatsValue == [total_articles |-> 57]

\* handleRefresh after `await fetchArticles(true)` returned: fetchStats()
RefreshAfterArticles(r) ==
    IF r.by = "refresh"
    THEN /\ statsReq' = statsReq (+) One("refresh")
         /\ hr' = [pc |-> "stats", c |-> hr.c]
    ELSE UNCHANGED <<statsReq, hr>>

\* variant: the response always overwrites the list
NextArticles_AlwaysReplace(r, n) == <<PageOf(r, n)>>

\* variant: a response to a request made with other filters is discarded
NextArticles_DropsStale(r, n) ==
    IF r.params # BuildParams(r.isNewSearch, CurrentClosure) THEN articles
    ELSE IF r.isNewSearch THEN <<PageOf(r, n)>>
    ELSE Append(articles, PageOf(r, n))

\* setArticles(response.data.articles) or setArticles(prev => [...prev, ...])
NextArticles(r, n) ==
    IF r.isNewSearch THEN <<PageOf(r, n)>> ELSE Append(articles, PageOf(r, n))

\* variant: more pages whenever the page is not empty
NextHasMore_NonEmpty(n) == n > 0

\* response.data.articles.length === 20
NextHasMore(n) == n = PerPage

\* GET /articles resolved with n articles and total t
ArticlesOk(r, n, t) ==
    /\ BagIn(r, inflight)
    /\ inflight' = inflight (-) One(r)
    /\ IF Mounted
       THEN /\ articles' = NextArticles(r, n)
            /\ totalArticles' = t
            /\ hasMore' = NextHasMore(n)
            /\ loading' = FALSE
       ELSE UNCHANGED <<articles, totalArticles, hasMore, loading>>
    /\ RefreshAfterArticles(r)
    /\ last' = Step("ArticlesOk", r.isNewSearch)
    /\ UNCHANGED <<phase, refreshing, searchTerm, selectedSource, selectedHours,
                   sources, stats, page, sourcesReq, interval, events, chg>>

\* variant: the catch block without setLoading(false)
ArticlesFail_KeepsLoading(r) ==
    /\ BagIn(r, inflight)
    /\ inflight' = inflight (-) One(r)
    /\ RefreshAfterArticles(r)
    /\ last' = Step("ArticlesFail", r.isNewSearch)
    /\ chg' = NoChange
    /\ UNCHANGED <<phase, articles, loading, refreshing, searchTerm, selectedSource,
                   selectedHours, sources, stats, page, totalArticles, hasMore,
                   sourcesReq, interval, events>>

\* GET /articles rejected
ArticlesFail(r) ==
    /\ BagIn(r, inflight)
    /\ inflight' = inflight (-) One(r)
    /\ loading' = (IF Mounted THEN FALSE ELSE loading)
    /\ RefreshAfterArticles(r)
    /\ last' = Step("ArticlesFail", r.isNewSearch)
    /\ chg' = NoChange
    /\ UNCHANGED <<phase, articles, refreshing, searchTerm, selectedSource,
                   selectedHours, sources, stats, page, totalArticles, hasMore,
                   sourcesReq, interval, events>>

\* handleRefresh after `await fetchStats()` returned: setRefreshing(false)
RefreshAfterStats(o) ==
    IF o = "refresh"
    THEN /\ refreshing' = (IF Mounted THEN FALSE ELSE refreshing)
         /\ hr' = [pc |-> "idle"]
    ELSE UNCHANGED <<refreshing, hr>>

StatsOk(o) ==
    /\ BagIn(o, statsReq)
    /\ statsReq' = statsReq (-) One(o)
    /\ stats' = (IF Mounted THEN StatsValue ELSE stats)
    /\ RefreshAfterStats(o)
    /\ last' = (IF o = "refresh" THEN Step("StatsOk", FALSE) ELSE last)
    /\ UNCHANGED <<phase, articles, loading, searchTerm, selectedSource,
                   selectedHours, sources, page, totalArticles, hasMore, inflight,
                   sourcesReq, interval, events, chg>>

StatsFail(o) ==
    /\ BagIn(o, statsReq)
    /\ statsReq' = statsReq (-) One(o)
    /\ RefreshAfterStats(o)
    /\ last' = (IF o = "refresh" THEN Step("StatsFail", FALSE) ELSE last)
    /\ UNCHANGED <<phase, articles, loading, searchTerm, selectedSource,
                   selectedHours, sources, stats, page, totalArticles, hasMore,
                   inflight, sourcesReq, interval, events, chg>>

SourcesOk ==
    /\ sourcesReq > 0
    /\ sourcesReq' = sourcesReq - 1
    /\ sources' = (IF Mounted THEN SourceKeys ELSE sources)
    /\ UNCHANGED <<phase, articles, loading, refreshing, searchTerm, selectedSource,
                   selectedHours, stats, page, totalArticles, hasMore, inflight,
                   statsReq, hr, interval, events, last, chg>>

SourcesFail ==
    /\ sourcesReq > 0
    /\ sourcesReq' = sourcesReq - 1
    /\ UNCHANGED <<phase, uiState, inflight, statsReq, hr, interval, events, last,
                   chg>>

\* variant: fetchArticles(true) not awaited, fetchStats() called at once
RefreshPostOk_NoAwait ==
    /\ hr.pc = "post"
    /\ hr' = [pc |-> "stats", c |-> hr.c]
    /\ statsReq' = statsReq (+) One("refresh")
    /\ IF Mounted
       THEN FetchNew(hr.c, "refresh")
       ELSE /\ inflight' = inflight (+) One(Request(TRUE, hr.c, "refresh"))
            /\ UNCHANGED <<searchTerm, selectedSource, selectedHours, page,
                           loading, interval>>
    /\ last' = Step("RefreshPostOk", TRUE)
    /\ chg' = NoChange
    /\ UNCHANGED <<phase, articles, refreshing, sources, stats, totalArticles,
                   hasMore, sourcesReq, events>>

\* POST /refresh resolved: handleRefresh goes on to `await fetchArticles(true)`
RefreshPostOk ==
    /\ hr.pc = "post"
    /\ hr' = [pc |-> "articles", c |-> hr.c]
    /\ IF Mounted
       THEN FetchNew(hr.c, "refresh")
       ELSE /\ inflight' = inflight (+) One(Request(TRUE, hr.c, "refresh"))
            /\ UNCHANGED <<searchTerm, selectedSource, selectedHours, page,
                           loading, interval>>
    /\ last' = Step("RefreshPostOk", TRUE)
    /\ chg' = NoChange
    /\ UNCHANGED <<phase, articles, refreshing, sources, stats, totalArticles,
                   hasMore, statsReq, sourcesReq, events>>

\* variant: setRefreshing(false) inside the try block, skipped by the catch
RefreshPostFail_StaysDisabled ==
    /\ hr.pc = "post"
    /\ hr' = [pc |-> "idle"]
    /\ last' = Step("RefreshPostFail", FALSE)
    /\ UNCHANGED <<phase, articles, loading, refreshing, searchTerm, selectedSource,
                   selectedHours, sources, stats, page, totalArticles, hasMore,
                   inflight, statsReq, sourcesReq, interval, events, chg>>

\* POST /refresh rejected: the catch block, then setRefreshing(false)
RefreshPostFail ==
    /\ hr.pc = "post"
    /\ hr' = [pc |-> "idle"]
    /\ refreshing' = (IF Mounted THEN FALSE ELSE refreshing)
    /\ last' = Step("RefreshPostFail", FALSE)
    /\ UNCHANGED <<phase, articles, loading, searchTerm, selectedSource,
                   selectedHours, sources, stats, page, totalArticles, hasMore,
                   inflight, statsReq, sourcesReq, interval, events, chg>>

----------------------------------------------------------------------------
Next ==
    \/ Mount
    \/ Unmount
    \/ \E s \in {"all"} \cup SourceKeys : SetSelectedSource(s)
    \/ \E h \in HoursOptions : SetSelectedHours(h)
    \/ \E t \in SearchTexts : SetSearchTerm(t)
    \/ HandleSearch
    \/ LoadMore
    \/ HandleRefresh
    \/ Tick
    \/ RefreshPostOk
    \/ RefreshPostFail
    \/ \E r \in BagToSet(inflight) : \E d \in Responses : ArticlesOk(r, d[1], d[2])
    \/ \E r \in BagToSet(inflight) : ArticlesFail(r)
    \/ \E o \in BagToSet(statsReq) : StatsOk(o)
    \/ \E o \in BagToSet(statsReq) : StatsFail(o)
    \/ SourcesOk
    \/ SourcesFail

Spec == Init /\ [][Next]_vars

\* a pending request resolves or rejects
Resolve ==
    \/ RefreshPostOk
    \/ RefreshPostFail
    \/ \E r \in BagToSet(inflight) : \E d \in Responses : ArticlesOk(r, d[1], d[2])
    \/ \E r \in BagToSet(inflight) : ArticlesFail(r)
    \/ \E o \in BagToSet(statsReq) : StatsOk(o)
    \/ \E o \in BagToSet(statsReq) : StatsFail(o)
    \/ SourcesOk
    \/ SourcesFail

\* every issued request is eventually answered
LiveSpec == Init /\ [][Next]_vars /\ WF_vars(Resolve)

----------------------------------------------------------------------------
(* Properties *)

NoArticlesInFlight == inflight = EmptyBag

\* the requests a step added to the bag of requests in flight
Issued(r) == inflight' = inflight (+) One(r)

ByRefresh == {r \in BagToSet(inflight) : r.by = "refresh"}

LastPage == articles[Len(articles)]

\* C1: after a change of the filter state (source key, recency window, or
\* search text submitted), once no articles request is outstanding, page
\* is 1 and the displayed list is exactly the page-1 response for the new
\* filter state.  chg is on from the change until another trigger acts or a
\* request fails.
C1_FilterChangeReplaces ==
    (Mounted /\ chg.on /\ NoArticlesInFlight) =>
        /\ page = 1
        /\ Len(articles) = 1
        /\ articles[1].q = BuildParams(TRUE, chg.c)

\* C2: page is incremented only in a state where hasMore is true and no
\* articles request is outstanding.
C2_LoadMoreOnlyWhenIdle ==
    [][page' = page + 1 => (hasMore /\ NoArticlesInFlight)]_vars

\* C3: editing the search text without submitting it issues no articles
\* request and changes neither the displayed list nor the page.
C3_EditIssuesNothing ==
    [][(\E t \in SearchTexts : SetSearchTerm(t)) =>
         (inflight' = inflight /\ articles' = articles /\ page' = page)]_vars

C5_RefreshingWhileInProgress ==
    Mounted =>
        /\ refreshing <=> (hr.pc # "idle")
        /\ (ByRefresh # {} \/ BagIn("refresh", statsReq)) => refreshing
        /\ BagCardinality([r \in ByRefresh |-> inflight[r]])
             + CopiesIn("refresh", statsReq) + (IF hr.pc = "post" THEN 1 ELSE 0) <= 1
        /\ last.op \in {"RefreshPostFail", "StatsOk", "StatsFail"} => ~refreshing

C5_Witness ==
    /\ Mounted
    /\ last.op = "StatsFail"
    /\ ~refreshing
    /\ hr.pc = "idle"

\* C6: a timer tick issues one stats request whatever the page is, issues a
\* replace-fetch of page 1 exactly when the current page is 1, and while
\* page > 1 changes neither the displayed list nor the page.
C6_TickByPage ==
    [][Tick =>
         (/\ BagCardinality(statsReq') = BagCardinality(statsReq) + 1
          /\ (page = 1) <=>
                (\E r \in BagToSet(inflight') :
                    r.isNewSearch /\ r.params.page = 1 /\ Issued(r))
          /\ (page # 1) => (inflight' = inflight /\ page' = page)
          /\ articles' = articles)]_vars

C6_Witness ==
    /\ Mounted
    /\ last.op = "Tick" /\ ~last.isNew
    /\ page = 2
    /\ BagIn("tick", statsReq)

\* C7: an actionable load-more increments page by exactly 1 and issues exactly
\* one append-fetch whose page parameter is the new page; a successful
\* append response is concatenated to the end of the list, which grows by
\* exactly the response length.
C7_LoadMoreAppends ==
    [][/\ LoadMore =>
            /\ page' = page + 1
            /\ \E r \in BagToSet(inflight') :
                  ~r.isNewSearch /\ r.params.page = page' /\ Issued(r)
       /\ \A r \in BagToSet(inflight) : \A d \in Responses :
            (Mounted /\ ~r.isNewSearch /\ ArticlesOk(r, d[1], d[2])) =>
               /\ Len(articles') = Len(articles) + 1
               /\ SubSeq(articles', 1, Len(articles)) = articles
               /\ articles'[Len(articles')] = [q |-> r.params, n |-> d[1]]
               /\ ListLength(articles') = ListLength(articles) + d[1]]_vars

C7_Witness ==
    /\ Mounted
    /\ last.op = "ArticlesOk" /\ ~last.isNew
    /\ page = 2
    /\ Len(articles) = 2
    /\ articles[1].q.page = 1 /\ articles[2].q.page = 2
    /\ ListLength(articles) = 40

\* C8: after every successful articles response, replace or append, hasMore
\* equals (length of the returned page = 20) and totalArticles equals the
\* total of that response.
C8_HasMoreAndTotal ==
    [][\A r \in BagToSet(inflight) : \A d \in Responses :
         (Mounted /\ ArticlesOk(r, d[1], d[2])) =>
            /\ hasMore' = (d[1] = 20)
            /\ totalArticles' = d[2]]_vars

C8_Witness ==
    /\ Mounted
    /\ last.op = "ArticlesOk"
    /\ LastPage.n = 19
    /\ ~hasMore
    /\ totalArticles = 19

\* C9: a manual refresh issues its requests in sequence: while its POST is
\* outstanding neither its replace-fetch nor its stats request is; its
\* replace-fetch is a fetch of page 1 and its stats request is not
\* outstanding with it; no two of the three are in flight together.
C9_RefreshSequential ==
    /\ hr.pc \in {"idle", "post"} => (ByRefresh = {} /\ ~BagIn("refresh", statsReq))
    /\ ByRefresh # {} =>
          /\ hr.pc = "articles"
          /\ ~BagIn("refresh", statsReq)
          /\ \A r \in ByRefresh :
                r.isNewSearch /\ r.params.page = 1 /\ CopiesIn(r, inflight) = 1
    /\ BagIn("refresh", statsReq) =>
          /\ hr.pc = "stats"
          /\ CopiesIn("refresh", statsReq) = 1
    /\ hr.pc = "articles" => Cardinality(ByRefresh) = 1
    /\ hr.pc = "stats" => BagIn("refresh", statsReq)

C9_Witness ==
    /\ hr.pc = "stats"
    /\ BagIn("refresh", statsReq)
    /\ last.op = "ArticlesOk" /\ last.isNew

\* the decimal digits of n, as a string
RECURSIVE Digits(_)
Digits(n) ==
    LET d == SubSeq(<<"0", "1", "2", "3", "4", "5", "6", "7", "8", "9">>,
                    (n % 10) + 1, (n % 10) + 1)
    IN  IF n < 10 THEN d ELSE Digits(n \div 10) \o d

\* p is the query the claim describes for a fetch called from closure c
QueryAsSpecified(isNew, c, p) ==
    /\ {"page", "per_page"} \subseteq DOMAIN p
    /\ DOMAIN p \subseteq {"page", "per_page", "hours", "source", "search"}
    /\ p.per_page = 20
    /\ p.page = (IF isNew THEN 1 ELSE c.page)
    /\ ("hours" \in DOMAIN p) <=> (c.selectedHours # ALL)
    /\ ("hours" \in DOMAIN p) => Digits(p.hours) = c.selectedHours
    /\ ("source" \in DOMAIN p) <=> (c.selectedSource # "all")
    /\ ("source" \in DOMAIN p) => p.source = c.selectedSource
    /\ ("search" \in DOMAIN p) <=> (c.searchTerm # "")
    /\ ("search" \in DOMAIN p) => p.search = c.searchTerm

\* C10: for every filter state the articles query has page and per_page = 20,
\* has hours (an integer) exactly when the recency window is not "all", source
\* exactly when the source key is not "all", search exactly when the search
\* text is non-empty; page is 1 for a replace-fetch and the page of the
\* calling render for an append-fetch.  Stated of every request in flight;
\* and, the query being a function of the closure alone, evaluated once (in
\* the initial state) for every closure of the domain, with every option of
\* the Time Filter.
C10_QueryFields ==
    /\ \A r \in BagToSet(inflight) : QueryAsSpecified(r.isNewSearch, r.c, r.params)
    /\ phase = "init" =>
          \A isNew \in BOOLEAN : \A pg \in 1 .. MaxEvents + 1 : \A st \in SearchTexts :
          \A ss \in {"all"} \cup SourceKeys : \A sh \in AllHoursOptions :
             LET c == Closure(pg, st, ss, sh)
             IN  QueryAsSpecified(isNew, c, BuildParams(isNew, c))

C10_Witness ==
    \E r \in BagToSet(inflight) :
        /\ ~r.isNewSearch
        /\ r.params.page = 2
        /\ DOMAIN r.params = {"page", "per_page", "hours", "search"}
        /\ r.params.hours = 24
        /\ r.params.search = "rust"

\* r is a request the step put in flight
NewlyIssued(r) == CopiesIn(r, inflight') > CopiesIn(r, inflight)

\* C11: every change of the source key or of the recency window issues a
\* replace-fetch of page 1 that carries the new value, also while an earlier
\* fetch is in flight (loading set).
C11_FilterChangeFetches ==
    [][((\E s \in {"all"} \cup SourceKeys : SetSelectedSource(s))
          \/ (\E h \in HoursOptions : SetSelectedHours(h))) =>
         (\E r \in BagToSet(inflight') :
             /\ NewlyIssued(r)
             /\ r.isNewSearch
             /\ r.params = BuildParams(TRUE, CurrentClosure'))]_vars

\* C12: every articles request carries the search text, source key and
\* recency window the filter state holds when the request is issued,
\* whichever trigger issued it (a tick after a filter change included).
C12_RequestCarriesCurrentFilters ==
    [][phase' = "mounted" =>
         \A r \in BagToSet(inflight') :
            NewlyIssued(r) =>
               /\ r.c.searchTerm = searchTerm'
               /\ r.c.selectedSource = selectedSource'
               /\ r.c.selectedHours = selectedHours'
               /\ r.params = BuildParams(r.isNewSearch, CurrentClosure')]_vars

\* C13: no articles response is cancelled or discarded: a request leaves the
\* requests in flight only by its own response, and every successful response
\* to a replace-fetch overwrites the displayed list when it resolves, so the
\* list is the response that resolved last, even if that request was issued
\* before the others.
C13_LastResolvedWins ==
    [][/\ \A r \in BagToSet(inflight) :
            CopiesIn(r, inflight') < CopiesIn(r, inflight) =>
               /\ CopiesIn(r, inflight') = CopiesIn(r, inflight) - 1
               /\ (\/ \E d \in Responses : ArticlesOk(r, d[1], d[2])
                   \/ ArticlesFail(r))
       /\ \A r \in BagToSet(inflight) : \A d \in Responses :
            (Mounted /\ r.isNewSearch /\ ArticlesOk(r, d[1], d[2])) =>
               articles' = <<[q |-> r.params, n |-> d[1]]>>]_vars

\* the replace-fetch of a manual refresh started with the recency window "all"
\* has resolved (handleRefresh is at its stats request), no articles request
\* is left, and the list is a response for the window "24" that resolved
\* after it
C13_Witness ==
    /\ Mounted
    /\ hr.pc = "stats" /\ hr.c.selectedHours = ALL
    /\ NoArticlesInFlight
    /\ last.op = "ArticlesOk" /\ last.isNew
    /\ Len(articles) = 1
    /\ "hours" \in DOMAIN articles[1].q
    /\ articles[1].n = 20

\* C14: in every reachable state with an articles request outstanding,
\* replace-fetch or append-fetch, loading is true.
C14_LoadingWhileInFlight ==
    (Mounted /\ ~NoArticlesInFlight) => loading

\* C15: the polling timer is started once, at mount, and cancelled once, at
\* unmount: while mounted no step cancels and re-creates it, none exists
\* before mount or after unmount.
C15_TimerLivesWithComponent ==
    [][/\ (phase = "mounted" /\ phase' = "mounted") => interval' = interval
       /\ (phase' = "mounted") => interval' # None
       /\ (phase' # "mounted") => interval' = None]_vars

\* C15 as amended: the timer is started at mount and cancelled at unmount;
\* while mounted it is cancelled and re-created exactly by the steps that
\* change the page number (load more, a reset from a later page to 1) and by
\* no other; a timer exists whenever the component is mounted, it tests the
\* current page, and none exists before mount or after unmount.
C15_TimerRecreatedOnPageChange ==
    [][/\ (phase = "mounted" /\ phase' = "mounted") =>
             ((interval' # interval) <=> (page' # page))
       /\ (phase' = "mounted") => (interval' # None /\ interval'.page = page')
       /\ (phase' # "mounted") => interval' = None]_vars

C15_Witness ==
    /\ Mounted
    /\ last.op = "LoadMore"
    /\ page = 2
    /\ interval = CurrentClosure

\* C16: mounting issues exactly one sources request, one stats request and
\* one articles request, a replace-fetch of page 1 with the default filters
\* (no search, no source, the 24-hour window); the filter effect and the page
\* effect add no second articles request.
C16_MountRequests ==
    [][Mount =>
         /\ sourcesReq' = sourcesReq + 1
         /\ BagCardinality(statsReq') = BagCardinality(statsReq) + 1
         /\ \E r \in BagToSet(inflight') :
              /\ Issued(r)
              /\ r.isNewSearch
              /\ r.params = [page |-> 1, per_page |-> PerPage, hours |-> 24]]_vars

C16_Witness ==
    /\ last.op = "Mount"
    /\ Mounted
    /\ sourcesReq = 1
    /\ statsReq = One("mount")
    /\ BagCardinality(inflight) = 1
    /\ \A r \in BagToSet(inflight) : r.by = "mount" /\ r.isNewSearch

\* C17: when every request is eventually answered and the triggers stop, the
\* loading flag of the mounted component eventually is false and stays
\* false, whatever the answers and their order; and at no time is it true
\* with no articles request in flight.
C17_LoadingEventuallyClears ==
    /\ [](Mounted /\ NoArticlesInFlight => ~loading)
    /\ <>[](Mounted => ~loading)

C17_Witness ==
    /\ Mounted
    /\ last.op = "ArticlesFail"
    /\ articles # <<>>
    /\ NoArticlesInFlight /\ statsReq = EmptyBag /\ sourcesReq = 0
    /\ hr.pc = "idle"
    /\ ~loading

\* C18: whenever no articles request is in flight, the list shown is the
\* responses for pages 1 .. page in page order, each once, and holds at most
\* page x 20 articles (stated for a list that has been loaded).
C18_ListIsPagesInOrder ==
    (Mounted /\ NoArticlesInFlight /\ articles # <<>>) =>
        /\ Len(articles) = page
        /\ \A i \in 1..Len(articles) : articles[i].q.page = i
        /\ ListLength(articles) <= page * PerPage

====
